---- MODULE Spec2Model ----
(***************************************************************************)
(* cdc.py: compare a master CLIA laboratory CSV file with new CSV files.   *)
(*                                                                         *)
(* Text is modelled as a sequence of symbols: the symbol " " is one        *)
(* whitespace character, every other symbol is a run of non-whitespace     *)
(* characters.  "Physician Office" is <<"Physician", " ", "Office">>.      *)
(* A CSV file is modelled as the sequence of its data lines, each line the *)
(* sequence of its fields as the tokenizer yields them (untrimmed text).   *)
(* A DataFrame is a record [index, rows]: the index labels and the rows,   *)
(* both in frame order; a row is a record over the column names.           *)
(* The master file carries a header line, kept apart from its data lines;  *)
(* the new files carry none.  A line may hold fewer fields than there are  *)
(* columns.                                                                *)
(***************************************************************************)
EXTENDS Integers, Sequences, FiniteSets, Bags, TLC

VARIABLES
    master_header,       \* header line of the master file: its column names
    master_csv,          \* data lines of the master file (below its header)
    new_files,           \* the new files, each the sequence of its lines
    df_mas_lab_data,     \* self.df_mas_lab_data
    df_new_lab_data,     \* self.df_new_lab_data
    new_clias_df,        \* process_data locals
    closed_clias_df,
    unchanged_clias_df,
    new_master_df,
    Output,              \* the files written below Output/, in order
    can_write,           \* how many to_csv calls the Output directory lets succeed
    pc,                  \* position of main()
    \* src/Reference/arpg.py
    args,                \* parse_args(): the options that steer the run
    fc_up,               \* whether the Flow Collector accepts the SSH connection
    tmp,                 \* which of /tmp/arpg and /tmp/arpg.bz2 exist
    data,                \* the host_baseline rows held by the file that is read
    command,             \* self.command
    remote,              \* what was done on the Flow Collector, in order
    global_pandas_df,    \* self.global_pandas_df
    gntp_pandas_df,      \* self.gntp_pandas_df
    gatp_pandas_df,      \* self.gatp_pandas_df
    tol_pandas_df,       \* self.tol_pandas_df
    stdout,              \* the banners printed, in order
    arpg_pc              \* position of arpg.py's main()

cdc_vars == <<master_header, master_csv, new_files, df_mas_lab_data, df_new_lab_data,
              new_clias_df, closed_clias_df, unchanged_clias_df, new_master_df,
              Output, can_write, pc>>

arpg_vars == <<args, fc_up, tmp, data, command, remote, global_pandas_df, gntp_pandas_df,
               gatp_pandas_df, tol_pandas_df, stdout, arpg_pc>>

vars == <<cdc_vars, arpg_vars>>

(***************************************************************************)
(* Bounds of the model.                                                    *)
(***************************************************************************)
MaxMasterRows == 2
MaxNewRows == 2
MaxFiles == 2

(***************************************************************************)
(* Text and cells.                                                         *)
(***************************************************************************)
SP == " "

\* A missing value (float NaN) as read_csv leaves it in a frame.
NaN == <<"#NaN#">>

\* self.columns
columns ==
    <<"CLIA", "FACILITY_TYPE", "CERTIFICATE_TYPE", "LAB_NAME", "STREET",
      "CITY", "STATE", "ZIP", "PHONE">>

ColumnSet == {columns[i] : i \in DOMAIN columns}

ColumnPos(c) == CHOOSE i \in DOMAIN columns : columns[i] = c

facility_type_keep_list ==
    {<<"Independent">>, <<"Hospital">>, <<"Physician", SP, "Office">>}

\* The field texts read_csv takes for a missing value (keep_default_na).
na_values ==
    {<<>>, <<"#N/A">>, <<"#NA">>, <<"-NaN">>, <<"-nan">>, <<"<NA>">>,
     <<"N/A">>, <<"NA">>, <<"NULL">>, <<"NaN">>, <<"n/a">>, <<"nan">>,
     <<"null">>}

RECURSIVE lstrip(_)
lstrip(s) == IF s # <<>> /\ Head(s) = SP THEN lstrip(Tail(s)) ELSE s

RECURSIVE rstrip(_)
rstrip(s) ==
    IF s # <<>> /\ s[Len(s)] = SP THEN rstrip(SubSeq(s, 1, Len(s) - 1)) ELSE s

lstrip_only(x) == lstrip(x)

\* lambda x: x.strip() if isinstance(x, str) else x
strip(x) == IF x = NaN THEN x ELSE rstrip(lstrip(x))

\* astype(str) on one cell: a missing value becomes the text nan.
astype_str(x) == IF x = NaN THEN <<"nan">> ELSE x

\* One field as read_csv(dtype=str) stores it.
read_field(f) == IF f \in na_values THEN NaN ELSE f

(***************************************************************************)
(* Frames.                                                                 *)
(***************************************************************************)
EmptyFrame == [index |-> <<>>, rows |-> <<>>]

RangeIndex(n) == [i \in 1..n |-> i - 1]

reset_index(df) == [index |-> RangeIndex(Len(df.rows)), rows |-> df.rows]

\* df[mask]: the rows whose position is in keep, with their index labels.
Positions(n, keep) ==
    SelectSeq([i \in 1..n |-> i], LAMBDA i : i \in keep)

take(df, keep) ==
    LET ps == Positions(Len(df.rows), keep)
    IN  [index |-> [k \in DOMAIN ps |-> df.index[ps[k]]],
         rows  |-> [k \in DOMAIN ps |-> df.rows[ps[k]]]]

\* pd.concat(frames): rows and index labels one frame after the other.
RECURSIVE concat(_)
concat(frames) ==
    IF frames = <<>> THEN EmptyFrame
    ELSE LET rest == concat(Tail(frames))
         IN  [index |-> Head(frames).index \o rest.index,
              rows  |-> Head(frames).rows \o rest.rows]

\* df.astype(str)
astype(df) ==
    [index |-> df.index,
     rows  |-> [i \in DOMAIN df.rows |->
                  [c \in DOMAIN df.rows[i] |-> astype_str(df.rows[i][c])]]]

\* df.applymap(lambda x: x.strip() if isinstance(x, str) else x)
applymap(df) ==
    [index |-> df.index,
     rows  |-> [i \in DOMAIN df.rows |->
                  [c \in DOMAIN df.rows[i] |-> strip(df.rows[i][c])]]]

\* The field at position p of a line; a line that ends before p has a
\* missing value there.
field_at(line, p) == IF p <= Len(line) THEN read_field(line[p]) ELSE NaN

\* pd.read_csv(file, names=self.columns, header=None, dtype=str,
\* usecols=self.columns) on tokenized lines.
read_csv(lines) ==
    [index |-> RangeIndex(Len(lines)),
     rows  |-> [i \in DOMAIN lines |->
                  [c \in ColumnSet |-> field_at(lines[i], ColumnPos(c))]]]

HeaderPos(c) == CHOOSE i \in DOMAIN master_header : master_header[i] = c

\* pd.read_csv(self.master_csv, dtype=str, usecols=self.columns): the
\* columns are found by their names in the header line.
read_master(lines) ==
    [index |-> RangeIndex(Len(lines)),
     rows  |-> [i \in DOMAIN lines |->
                  [c \in ColumnSet |-> field_at(lines[i], HeaderPos(c))]]]

\* ValueError: usecols do not match columns (a name of self.columns is not
\* in the header of the master file).
usecols_missing ==
    \E c \in ColumnSet : \A i \in DOMAIN master_header : master_header[i] # c

\* ParserError: too many columns specified (no line of the file has as
\* many fields as names were passed).
too_many_columns(lines) ==
    lines # <<>> /\ \A i \in DOMAIN lines : Len(lines[i]) < Len(columns)

isin_keep(df) ==
    take(df, {i \in DOMAIN df.rows :
                df.rows[i]["FACILITY_TYPE"] \in facility_type_keep_list})

no_filter(df) == df

filter_master(df) == isin_keep(df)

filter_new(df) == isin_keep(df)

\* get_files, master side: read, keep-list filter, astype(str).
master_as_str(lines) == astype(filter_master(read_master(lines)))

new_as_str_first_file(files) ==
    astype(filter_new(read_csv(IF files = <<>> THEN <<>> ELSE files[1])))

\* get_files, new side: read each file, concat, keep-list filter, astype(str).
new_as_str(files) ==
    astype(filter_new(concat([k \in DOMAIN files |-> read_csv(files[k])])))

\* self.df_mas_lab_data as get_files leaves it
load_master(lines) == applymap(master_as_str(lines))

\* self.df_new_lab_data as get_files leaves it
load_new(files) == applymap(new_as_str(files))

(***************************************************************************)
(* df1.merge(df2, indicator=True, on=self.columns, how="outer")            *)
(*                                                                         *)
(* The join groups the rows of both frames by key, the keys in order of    *)
(* first appearance (df1 then df2).  A key with nl rows in df1 and nr rows *)
(* in df2 yields nl*nr rows tagged both, or its nl rows tagged left_only   *)
(* when nr = 0, or its nr rows tagged right_only when nl = 0.  The frames  *)
(* hold the key columns only, so a joined row is its key plus _merge.      *)
(***************************************************************************)
None == "None"

key_of(r) == [c \in ColumnSet |-> r[c]]

RECURSIVE distinct(_)
distinct(s) ==
    IF s = <<>> THEN <<>>
    ELSE LET d == distinct(SubSeq(s, 1, Len(s) - 1))
             x == s[Len(s)]
         IN  IF \E i \in DOMAIN d : d[i] = x THEN d ELSE Append(d, x)

count(df, k) == Cardinality({i \in DOMAIN df.rows : key_of(df.rows[i]) = k})

indicator_right_any(nl, nr) ==
    IF nr > 0 THEN "right_only" ELSE "left_only"

indicator(nl, nr) ==
    IF nr = 0 THEN "left_only" ELSE IF nl = 0 THEN "right_only" ELSE "both"

pairings_collapsed(nl, nr) == 1

pairings_by_incoming(nl, nr) == IF nr = 0 THEN nl ELSE nr

\* number of joined rows of one key
pairings(nl, nr) ==
    (IF nl = 0 THEN 1 ELSE nl) * (IF nr = 0 THEN 1 ELSE nr)

join_group_clia_only(k, nl, nr) ==
    [i \in 1..pairings(nl, nr) |->
        [c \in ColumnSet |-> IF c = "CLIA" THEN k[c] ELSE astype_str(NaN)]
            @@ ("_merge" :> indicator(nl, nr))]

join_group(k, nl, nr) ==
    [i \in 1..pairings(nl, nr) |-> k @@ ("_merge" :> indicator(nl, nr))]

RECURSIVE flatten(_)
flatten(ss) == IF ss = <<>> THEN <<>> ELSE Head(ss) \o flatten(Tail(ss))

merge_left(df1, df2) ==
    LET keys == distinct([i \in DOMAIN df1.rows |-> key_of(df1.rows[i])])
        rows == flatten([j \in DOMAIN keys |->
                    join_group(keys[j], count(df1, keys[j]), count(df2, keys[j]))])
    IN  [index |-> RangeIndex(Len(rows)), rows |-> rows]

merge_inner(df1, df2) ==
    LET keys == distinct(SelectSeq([i \in DOMAIN df1.rows |-> key_of(df1.rows[i])],
                                  LAMBDA k : count(df2, k) > 0))
        rows == flatten([j \in DOMAIN keys |->
                    join_group(keys[j], count(df1, keys[j]), count(df2, keys[j]))])
    IN  [index |-> RangeIndex(Len(rows)), rows |-> rows]

merge(df1, df2) ==
    LET both == df1.rows \o df2.rows
        keys == distinct([i \in DOMAIN both |-> key_of(both[i])])
        rows == flatten([j \in DOMAIN keys |->
                    join_group(keys[j], count(df1, keys[j]), count(df2, keys[j]))])
    IN  [index |-> RangeIndex(Len(rows)), rows |-> rows]

df_diff_not_both(df1, df2, which) ==
    LET comparison_df == merge(df1, df2)
        n == Len(comparison_df.rows)
    IN  reset_index(take(comparison_df,
            {i \in 1..n : comparison_df.rows[i]["_merge"] # "both"}))

df_diff_keep_index(df1, df2, which) ==
    LET comparison_df == merge(df1, df2)
        n == Len(comparison_df.rows)
    IN  IF which = None
        THEN take(comparison_df,
                 {i \in 1..n : comparison_df.rows[i]["_merge"] # "both"})
        ELSE take(comparison_df,
                 {i \in 1..n : comparison_df.rows[i]["_merge"] = which})

\* Parsedata.df_diff
df_diff(df1, df2, which) ==
    LET comparison_df == merge(df1, df2)
        n == Len(comparison_df.rows)
    IN  IF which = None
        THEN reset_index(take(comparison_df,
                 {i \in 1..n : comparison_df.rows[i]["_merge"] # "both"}))
        ELSE reset_index(take(comparison_df,
                 {i \in 1..n : comparison_df.rows[i]["_merge"] = which}))

\* df.drop("_merge", 1)
drop_merge(df) ==
    [index |-> df.index,
     rows  |-> [i \in DOMAIN df.rows |->
                  [c \in (DOMAIN df.rows[i]) \ {"_merge"} |-> df.rows[i][c]]]]

(***************************************************************************)
(* process_data: the three classifications and the new master.             *)
(***************************************************************************)
new_clias(mas, new) == drop_merge(df_diff(mas, new, "right_only"))

closed_clias(mas, new) == reset_index(drop_merge(df_diff(mas, new, "left_only")))

unchanged_clias_as_left(mas, new) == drop_merge(df_diff(mas, new, "left_only"))

unchanged_clias(mas, new) == drop_merge(df_diff(mas, new, "both"))

concat_ignore_index(frames) == reset_index(concat(frames))

new_master_unchanged_only(unchanged, added) ==
    reset_index(concat_ignore_index(<<unchanged>>))

new_master_from_master(unchanged, added) ==
    reset_index(concat_ignore_index(<<df_mas_lab_data, added>>))

new_master_keep_index(unchanged, added) == concat(<<unchanged, added>>)

\* pd.concat([unchanged, new], ignore_index=True).reset_index(drop=True)
new_master(unchanged, added) ==
    reset_index(concat_ignore_index(<<unchanged, added>>))

\* df.to_csv(path): the header, then one line per row with its index label.
to_csv(df) ==
    [header |-> <<"">> \o columns,
     lines  |-> [i \in DOMAIN df.rows |->
                   [label  |-> df.index[i],
                    fields |-> [j \in DOMAIN columns |-> df.rows[i][columns[j]]]]]]

\* The to_csv calls of process_data, one after the other: the first one
\* that fails raises, and the files written before it stay.
saved(files) ==
    SubSeq(files, 1, IF can_write < Len(files) THEN can_write ELSE Len(files))

(***************************************************************************)
(* The input files.                                                        *)
(***************************************************************************)
Line(clia, facility, state) ==
    <<clia, facility, <<"Compliance">>, <<"LAB">>, <<"1", SP, "Main">>,
      <<"Anchorage">>, state, <<"99501">>, <<"555">>>>

Hospital == <<"Hospital">>

\* The lines the master file may hold: labs 01D (also padded with
\* whitespace) and 02D, and lab 01D with other facility types.
MasterLines ==
    {Line(c, Hospital, <<"AL">>) : c \in {<<"01D">>, <<SP, "01D", SP>>, <<"02D">>}}
    \cup {Line(<<"01D">>, f, <<"AL">>) : f \in {<<SP, "Hospital", SP>>, <<"Clinic">>}}

\* The lines a new file may hold: labs 01D, 02D and 03D, and lab 03D with
\* a facility type that is not kept.
NewLines ==
    {Line(c, Hospital, <<"AL">>) : c \in {<<"01D">>, <<"02D">>, <<"03D">>}}
    \cup {Line(<<"03D">>, <<"Clinic">>, <<"AL">>)}

SeqsUpTo(S, n) == UNION {[1..k -> S] : k \in 0..n}

\* The ways to cut n lines into k files, none of them empty.
Cuts(n, k) ==
    {c \in [1..(k - 1) -> 1..(n - 1)] : \A i \in 1..(k - 2) : c[i] < c[i + 1]}

Split(s, c) ==
    [j \in 1..(Len(c) + 1) |->
        SubSeq(s, (IF j = 1 THEN 0 ELSE c[j - 1]) + 1,
                  IF j = Len(c) + 1 THEN Len(s) ELSE c[j])]

\* nargs="+": one file, or several files with lines in each
FileLists ==
    UNION {{Split(s, c) : c \in Cuts(Len(s), k)} :
             s \in SeqsUpTo(NewLines, MaxNewRows), k \in 1..MaxFiles}

(***************************************************************************)
(* Files that are not well formed: a master header that lacks PHONE or     *)
(* carries one column more, and lines that end early.                      *)
(***************************************************************************)
NarrowHeader == SubSeq(columns, 1, Len(columns) - 1)

WideHeader == <<"CLIA", "DIRECTOR">> \o Tail(columns)

ShortLine == <<<<"02D">>, Hospital>>

WideLine == <<<<"01D">>, <<"Dr", SP, "Who">>>> \o Tail(Line(<<"01D">>, Hospital, <<"AL">>))

FullLine == Line(<<"01D">>, Hospital, <<"AL">>)

\* the data lines met below each header
LinesBelow(header) ==
    IF header = WideHeader THEN {WideLine, FullLine} ELSE {FullLine, ShortLine}

LoadFileLists ==
    UNION {{Split(s, c) : c \in Cuts(Len(s), k)} :
             s \in SeqsUpTo({FullLine, ShortLine}, MaxNewRows), k \in 1..MaxFiles}

(***************************************************************************)
(* Files with a field that is empty or reads NA or nan: lab 01D with the   *)
(* STATE field empty, NA, nan and AL.                                      *)
(***************************************************************************)
TextLines ==
    {Line(<<"01D">>, Hospital, st) : st \in {<<>>, <<"NA">>, <<"nan">>, <<"AL">>}}

TextFileLists ==
    UNION {{Split(s, c) : c \in Cuts(Len(s), k)} :
             s \in SeqsUpTo(TextLines, MaxNewRows), k \in 1..MaxFiles}

(***************************************************************************)
(* src/Reference/arpg.py: the collector script.                            *)
(*                                                                         *)
(* A frame is modelled with the columns ip_address, day_of_week and one    *)
(* numeric column, ci.  self.global_pandas_df starts as the string "";     *)
(* Str stands for it.  A mean is kept as the fraction num/den.             *)
(***************************************************************************)
Str == [is_frame |-> FALSE, rows |-> <<>>]

DataFrame(rows) == [is_frame |-> TRUE, rows |-> rows]

Row(ip, day, ci) == [ip_address |-> ip, day_of_week |-> day, ci |-> ci]

\* What the host_baseline query may give: nothing, one weekday row, or
\* rows of two hosts with a Sunday and a Saturday among them.
BaselineData ==
    {<<>>,
     <<Row("10.0.0.1", 1, 2)>>,
     <<Row("10.0.0.1", 1, 2), Row("10.0.0.1", 0, 5), Row("10.0.0.2", 2, 4),
       Row("10.0.0.1", 6, 7)>>}

\* parse_args(): --cache, --csv, --dry_run, --host_group, --raw, and the
\* Flow Collector credentials ("None": given neither on the command line
\* nor in ~/.arpg.yaml).
ArgsSet ==
    [cache : BOOLEAN, csv : {"None", "data.csv"}, dry_run : BOOLEAN,
     host_group : {"%", "68"}, raw : BOOLEAN,
     flow_collector_ip : {"None", "10.90.67.28"}]

TmpFiles == {"/tmp/arpg", "/tmp/arpg.bz2"}

banner(stream, description) == Append(stream, description)

\* df[df.day_of_week != 0], then df[df.day_of_week != 6]
weekdays(rows) == SelectSeq(rows, LAMBDA r : r.day_of_week # 0 /\ r.day_of_week # 6)

ip_addresses(rows) == {rows[i].ip_address : i \in DOMAIN rows}

\* groupby(ip_address) after drop('day_of_week'): the ci values of each host
groupby(rows) ==
    [ip \in ip_addresses(rows) |->
        LET own == SelectSeq(rows, LAMBDA r : r.ip_address = ip)
        IN  [i \in DOMAIN own |-> own[i].ci]]

RECURSIVE total(_)
total(s) == IF s = <<>> THEN 0 ELSE Head(s) + total(Tail(s))

RECURSIVE sum_over(_, _)
sum_over(g, S) ==
    IF S = {} THEN 0
    ELSE LET x == CHOOSE y \in S : TRUE IN total(g[x]) + sum_over(g, S \ {x})

RECURSIVE lengths(_, _)
lengths(g, S) ==
    IF S = {} THEN 1
    ELSE LET x == CHOOSE y \in S : TRUE IN Len(g[x]) * lengths(g, S \ {x})

RECURSIVE means_over(_, _, _)
means_over(g, S, den) ==
    IF S = {} THEN 0
    ELSE LET x == CHOOSE y \in S : TRUE
         IN  total(g[x]) * (den \div Len(g[x])) + means_over(g, S \ {x}, den)

\* groupby(['ip_address']).mean().mean(axis=0): the mean over the hosts of
\* each host's mean, NaN when there is no host.
mean_of_means(rows) ==
    LET g == groupby(weekdays(rows))
        den == lengths(g, DOMAIN g)
    IN  IF DOMAIN g = {} THEN [ci |-> NaN]
        ELSE [ci |-> [num |-> means_over(g, DOMAIN g, den),
                      den |-> den * Cardinality(DOMAIN g)]]

\* groupby(['ip_address']).sum().sum(axis=0)
sum_of_sums(rows) ==
    LET g == groupby(weekdays(rows)) IN [ci |-> sum_over(g, DOMAIN g)]

\* self.command: the query, which names the host group
vsql(host_group) == <<"vsql", host_group>>

arpg_frames == <<global_pandas_df, gntp_pandas_df, gatp_pandas_df, tol_pandas_df>>

\* Parsedata(args) of arpg.py has not been called.
ArpgIdle ==
    /\ args = [cache |-> FALSE, csv |-> "None", dry_run |-> FALSE,
               host_group |-> "%", raw |-> FALSE, flow_collector_ip |-> "None"]
    /\ fc_up = FALSE
    /\ tmp = {}
    /\ data = <<>>
    /\ command = <<>>
    /\ remote = <<>>
    /\ global_pandas_df = Str
    /\ gntp_pandas_df = Str
    /\ gatp_pandas_df = Str
    /\ tol_pandas_df = Str
    /\ stdout = <<>>
    /\ arpg_pc = "idle"

(***************************************************************************)
(* main(): Parsedata(args), get_files(), process_data().                   *)
(***************************************************************************)
InitFrames ==
    /\ df_mas_lab_data = EmptyFrame
    /\ df_new_lab_data = EmptyFrame
    /\ new_clias_df = EmptyFrame
    /\ closed_clias_df = EmptyFrame
    /\ unchanged_clias_df = EmptyFrame
    /\ new_master_df = EmptyFrame
    /\ Output = <<>>
    /\ pc = "start"

Init ==
    /\ master_header = columns
    /\ master_csv \in SeqsUpTo(MasterLines, MaxMasterRows)
    /\ new_files \in FileLists
    /\ InitFrames
    /\ can_write = 3
    /\ ArpgIdle

InitLoad ==
    /\ master_header \in {columns, NarrowHeader, WideHeader}
    /\ master_csv \in SeqsUpTo(LinesBelow(master_header), MaxMasterRows)
    /\ new_files \in LoadFileLists
    /\ InitFrames
    /\ can_write = 3
    /\ ArpgIdle

get_files_swallows ==
    /\ pc = "start"
    /\ df_mas_lab_data' =
          IF usecols_missing THEN EmptyFrame ELSE load_master(master_csv)
    /\ df_new_lab_data' =
          IF \E k \in DOMAIN new_files : too_many_columns(new_files[k])
          THEN EmptyFrame ELSE load_new(new_files)
    /\ pc' = "loaded"
    /\ UNCHANGED <<master_header, master_csv, new_files, new_clias_df,
                   closed_clias_df, unchanged_clias_df, new_master_df, Output,
                   can_write, arpg_vars>>

get_files_by_position ==
    /\ pc = "start"
    /\ df_mas_lab_data' = applymap(astype(filter_master(read_csv(master_csv))))
    /\ IF \E k \in DOMAIN new_files : too_many_columns(new_files[k])
       THEN /\ pc' = "raised"
            /\ UNCHANGED df_new_lab_data
       ELSE /\ df_new_lab_data' = load_new(new_files)
            /\ pc' = "loaded"
    /\ UNCHANGED <<master_header, master_csv, new_files, new_clias_df,
                   closed_clias_df, unchanged_clias_df, new_master_df, Output,
                   can_write, arpg_vars>>

\* get_files; an exception of read_csv leaves main() through its handler,
\* which prints and raises it again.
get_files ==
    /\ pc = "start"
    /\ IF usecols_missing
       THEN /\ pc' = "raised"
            /\ UNCHANGED <<df_mas_lab_data, df_new_lab_data>>
       ELSE IF \E k \in DOMAIN new_files : too_many_columns(new_files[k])
       THEN /\ df_mas_lab_data' = load_master(master_csv)
            /\ pc' = "raised"
            /\ UNCHANGED df_new_lab_data
       ELSE /\ df_mas_lab_data' = load_master(master_csv)
            /\ df_new_lab_data' = load_new(new_files)
            /\ pc' = "loaded"
    /\ UNCHANGED <<master_header, master_csv, new_files, new_clias_df,
                   closed_clias_df, unchanged_clias_df, new_master_df, Output,
                   can_write, arpg_vars>>

process_data_overwrites ==
    /\ pc = "loaded"
    /\ df_mas_lab_data' = df_diff(df_mas_lab_data, df_new_lab_data, "right_only")
    /\ new_clias_df' = drop_merge(df_mas_lab_data')
    /\ closed_clias_df' = closed_clias(df_mas_lab_data, df_new_lab_data)
    /\ unchanged_clias_df' = unchanged_clias(df_mas_lab_data, df_new_lab_data)
    /\ new_master_df' = new_master(unchanged_clias_df', new_clias_df')
    /\ Output' = Output \o saved(
          <<[name |-> "new_clia_data", data |-> to_csv(new_clias_df')],
            [name |-> "closed_clia_data", data |-> to_csv(closed_clias_df')],
            [name |-> "new_master_clia_data", data |-> to_csv(new_master_df')]>>)
    /\ pc' = IF can_write >= 3 THEN "done" ELSE "raised"
    /\ UNCHANGED <<master_header, master_csv, new_files, df_new_lab_data,
                   can_write, arpg_vars>>

process_data_no_closed_file ==
    /\ pc = "loaded"
    /\ new_clias_df' = new_clias(df_mas_lab_data, df_new_lab_data)
    /\ closed_clias_df' = closed_clias(df_mas_lab_data, df_new_lab_data)
    /\ unchanged_clias_df' = unchanged_clias(df_mas_lab_data, df_new_lab_data)
    /\ new_master_df' = new_master(unchanged_clias_df', new_clias_df')
    /\ Output' = Output \o saved(
          <<[name |-> "new_clia_data", data |-> to_csv(new_clias_df')],
            [name |-> "new_master_clia_data", data |-> to_csv(new_master_df')]>>)
    /\ pc' = IF can_write >= 2 THEN "done" ELSE "raised"
    /\ UNCHANGED <<master_header, master_csv, new_files, df_mas_lab_data,
                   df_new_lab_data, can_write, arpg_vars>>

process_data_master_first ==
    /\ pc = "loaded"
    /\ new_clias_df' = new_clias(df_mas_lab_data, df_new_lab_data)
    /\ closed_clias_df' = closed_clias(df_mas_lab_data, df_new_lab_data)
    /\ unchanged_clias_df' = unchanged_clias(df_mas_lab_data, df_new_lab_data)
    /\ new_master_df' = new_master(unchanged_clias_df', new_clias_df')
    /\ Output' = Output \o saved(
          <<[name |-> "new_master_clia_data", data |-> to_csv(new_master_df')],
            [name |-> "new_clia_data", data |-> to_csv(new_clias_df')],
            [name |-> "closed_clia_data", data |-> to_csv(closed_clias_df')]>>)
    /\ pc' = IF can_write >= 3 THEN "done" ELSE "raised"
    /\ UNCHANGED <<master_header, master_csv, new_files, df_mas_lab_data,
                   df_new_lab_data, can_write, arpg_vars>>

\* process_data; an exception of to_csv leaves main() through its handler
\* like one of read_csv.
process_data ==
    /\ pc = "loaded"
    /\ new_clias_df' = new_clias(df_mas_lab_data, df_new_lab_data)
    /\ closed_clias_df' = closed_clias(df_mas_lab_data, df_new_lab_data)
    /\ unchanged_clias_df' = unchanged_clias(df_mas_lab_data, df_new_lab_data)
    /\ new_master_df' = new_master(unchanged_clias_df', new_clias_df')
    /\ Output' = Output \o saved(
          <<[name |-> "new_clia_data", data |-> to_csv(new_clias_df')],
            [name |-> "closed_clia_data", data |-> to_csv(closed_clias_df')],
            [name |-> "new_master_clia_data", data |-> to_csv(new_master_df')]>>)
    /\ pc' = IF can_write >= 3 THEN "done" ELSE "raised"
    /\ UNCHANGED <<master_header, master_csv, new_files, df_mas_lab_data,
                   df_new_lab_data, can_write, arpg_vars>>

InitText ==
    /\ master_header = columns
    /\ master_csv \in SeqsUpTo(TextLines, MaxMasterRows)
    /\ new_files \in TextFileLists
    /\ InitFrames
    /\ can_write = 3
    /\ ArpgIdle

\* Labs 01D and 02D, and an Output directory that takes none, some or all
\* of the three files.
WriteLines == {Line(c, Hospital, <<"AL">>) : c \in {<<"01D">>, <<"02D">>}}

WriteFileLists ==
    UNION {{Split(s, c) : c \in Cuts(Len(s), k)} :
             s \in SeqsUpTo(WriteLines, MaxNewRows), k \in 1..MaxFiles}

InitWrite ==
    /\ master_header = columns
    /\ master_csv \in SeqsUpTo(WriteLines, MaxMasterRows)
    /\ new_files \in WriteFileLists
    /\ InitFrames
    /\ can_write \in 0..3
    /\ ArpgIdle

Next == get_files \/ process_data

Spec == Init /\ [][Next]_vars

\* the same program on files that are not well formed
SpecLoad == InitLoad /\ [][Next]_vars

\* the same program on files with empty, NA and nan fields
SpecText == InitText /\ [][Next]_vars

\* the same program when writing below Output/ may fail
SpecWrite == InitWrite /\ [][Next]_vars

(***************************************************************************)
(* arpg.py main(): Parsedata(args), create_vsql_query(), get_fc_data(),    *)
(* process_file(), display_all_data(), display_raw_data(),                 *)
(* get_never_trigger_point(), get_always_trigger_point(), get_tolerance(). *)
(* sys.exit() ends the run at "exited"; an exception leaves main() through *)
(* its handler, which prints and raises it again, at "raised".             *)
(***************************************************************************)
InitArpg ==
    /\ master_header = columns
    /\ master_csv = <<>>
    /\ new_files = <<>>
    /\ df_mas_lab_data = EmptyFrame
    /\ df_new_lab_data = EmptyFrame
    /\ new_clias_df = EmptyFrame
    /\ closed_clias_df = EmptyFrame
    /\ unchanged_clias_df = EmptyFrame
    /\ new_master_df = EmptyFrame
    /\ Output = <<>>
    /\ can_write = 3
    /\ pc = "idle"
    /\ args \in ArgsSet
    /\ fc_up \in BOOLEAN
    /\ tmp \in SUBSET TmpFiles
    /\ data \in BaselineData
    /\ command = <<>>
    /\ remote = <<>>
    /\ global_pandas_df = Str
    /\ gntp_pandas_df = Str
    /\ gatp_pandas_df = Str
    /\ tol_pandas_df = Str
    /\ IF args.flow_collector_ip = "None"
       THEN /\ stdout = <<<<"Error: must supply Flow Collector IP, Username and Password">>>>
            /\ arpg_pc = "exited"
       ELSE /\ stdout = <<>>
            /\ arpg_pc = "create_vsql_query"

create_vsql_query ==
    /\ arpg_pc = "create_vsql_query"
    /\ command' = vsql(args.host_group)
    /\ arpg_pc' = "get_fc_data"
    /\ UNCHANGED <<cdc_vars, args, fc_up, tmp, data, remote, arpg_frames, stdout>>

get_fc_data_ignores_dry_run ==
    /\ arpg_pc = "get_fc_data"
    /\ IF args.cache
       THEN /\ stdout' = banner(stdout, <<"Skip retrieving latest data, process cached data off-box">>)
            /\ arpg_pc' = "process_file"
            /\ UNCHANGED <<remote, tmp>>
       ELSE IF args.csv # "None"
       THEN /\ stdout' = banner(stdout, <<"Skip retrieving latest data, processing file", args.csv>>)
            /\ arpg_pc' = "process_file"
            /\ UNCHANGED <<remote, tmp>>
       ELSE IF ~fc_up
       THEN /\ remote' = Append(remote, <<"connect">>)
            /\ arpg_pc' = "raised"
            /\ UNCHANGED <<stdout, tmp>>
       ELSE /\ remote' = remote \o <<<<"connect">>, <<"exec_command">> \o command,
                                     <<"exec_command", "bzip2">>, <<"scp">>,
                                     <<"exec_command", "rm">>>>
            /\ tmp' = tmp \cup {"/tmp/arpg.bz2"}
            /\ arpg_pc' = "process_file"
            /\ UNCHANGED stdout
    /\ UNCHANGED <<cdc_vars, args, fc_up, data, command, arpg_frames>>

get_fc_data ==
    /\ arpg_pc = "get_fc_data"
    /\ IF args.cache
       THEN /\ stdout' = banner(stdout, <<"Skip retrieving latest data, process cached data off-box">>)
            /\ arpg_pc' = "process_file"
            /\ UNCHANGED <<remote, tmp>>
       ELSE IF args.csv # "None"
       THEN /\ stdout' = banner(stdout, <<"Skip retrieving latest data, processing file", args.csv>>)
            /\ arpg_pc' = "process_file"
            /\ UNCHANGED <<remote, tmp>>
       ELSE IF args.dry_run
       THEN /\ stdout' = banner(stdout, <<"Dry Run Begin">>)
            /\ arpg_pc' = "process_file"
            /\ UNCHANGED <<remote, tmp>>
       ELSE IF ~fc_up
       THEN /\ remote' = Append(remote, <<"connect">>)
            /\ arpg_pc' = "raised"
            /\ UNCHANGED <<stdout, tmp>>
       ELSE /\ remote' = remote \o <<<<"connect">>, <<"exec_command">> \o command,
                                     <<"exec_command", "bzip2">>, <<"scp">>,
                                     <<"exec_command", "rm">>>>
            /\ tmp' = tmp \cup {"/tmp/arpg.bz2"}
            /\ arpg_pc' = "process_file"
            /\ UNCHANGED stdout
    /\ UNCHANGED <<cdc_vars, args, fc_up, data, command, arpg_frames>>

process_file ==
    /\ arpg_pc = "process_file"
    /\ IF args.dry_run
       THEN /\ stdout' = banner(stdout, <<"Dry run end">>)
            /\ arpg_pc' = "exited"
            /\ UNCHANGED <<global_pandas_df, tmp>>
       ELSE IF args.cache
       THEN /\ IF "/tmp/arpg" \in tmp
               THEN /\ global_pandas_df' = DataFrame(data)
                    /\ arpg_pc' = "display_all_data"
               ELSE /\ arpg_pc' = "exited"
                    /\ UNCHANGED global_pandas_df
            /\ UNCHANGED <<stdout, tmp>>
       ELSE IF args.csv # "None"
       THEN /\ global_pandas_df' = DataFrame(data)
            /\ arpg_pc' = "display_all_data"
            /\ UNCHANGED <<stdout, tmp>>
       ELSE IF "/tmp/arpg.bz2" \in tmp
       THEN /\ tmp' = (tmp \ {"/tmp/arpg.bz2"}) \cup {"/tmp/arpg"}
            /\ global_pandas_df' = DataFrame(data)
            /\ arpg_pc' = "display_all_data"
            /\ UNCHANGED stdout
       ELSE /\ arpg_pc' = "display_all_data"
            /\ UNCHANGED <<global_pandas_df, stdout, tmp>>
    /\ UNCHANGED <<cdc_vars, args, fc_up, data, command, remote,
                   gntp_pandas_df, gatp_pandas_df, tol_pandas_df>>

\* both display methods: under --raw a banner, then .empty of the frame
display(description, next) ==
    /\ IF args.raw
       THEN /\ stdout' = banner(stdout, description)
            /\ arpg_pc' = IF global_pandas_df.is_frame THEN next ELSE "raised"
       ELSE /\ arpg_pc' = next
            /\ UNCHANGED stdout
    /\ UNCHANGED <<cdc_vars, args, fc_up, tmp, data, command, remote, arpg_frames>>

display_all_data ==
    /\ arpg_pc = "display_all_data"
    /\ display(<<"All Host Baseline Data">>, "display_raw_data")

display_raw_data ==
    /\ arpg_pc = "display_raw_data"
    /\ display(<<"Raw Pandas DF in series and rows">>, "get_never_trigger_point")

\* host_group_id is assigned only when self.host_group is "%"; reading it
\* otherwise raises UnboundLocalError.
host_group_id_bound == args.host_group = "%"

get_never_trigger_point ==
    /\ arpg_pc = "get_never_trigger_point"
    /\ IF ~host_group_id_bound
       THEN /\ arpg_pc' = "raised"
            /\ UNCHANGED <<stdout, gntp_pandas_df>>
       ELSE IF ~global_pandas_df.is_frame
       THEN /\ stdout' = banner(stdout, <<"Host Group id=", "All">>)
            /\ arpg_pc' = "raised"
            /\ UNCHANGED gntp_pandas_df
       ELSE /\ gntp_pandas_df' = mean_of_means(global_pandas_df.rows)
            /\ stdout' = banner(banner(stdout, <<"Host Group id=", "All">>),
                                <<"Never Trigger Point per data per IP">>)
            /\ arpg_pc' = "get_always_trigger_point"
    /\ UNCHANGED <<cdc_vars, args, fc_up, tmp, data, command, remote,
                   global_pandas_df, gatp_pandas_df, tol_pandas_df>>

get_always_trigger_point ==
    /\ arpg_pc = "get_always_trigger_point"
    /\ IF ~host_group_id_bound
       THEN /\ arpg_pc' = "raised"
            /\ UNCHANGED <<stdout, gatp_pandas_df>>
       ELSE IF ~global_pandas_df.is_frame
       THEN /\ stdout' = banner(stdout, <<"Host Group id=", "All">>)
            /\ arpg_pc' = "raised"
            /\ UNCHANGED gatp_pandas_df
       ELSE /\ gatp_pandas_df' = sum_of_sums(global_pandas_df.rows)
            /\ stdout' = banner(banner(stdout, <<"Host Group id=", "All">>),
                                <<"Always Trigger Point per data per IP">>)
            /\ arpg_pc' = "get_tolerance"
    /\ UNCHANGED <<cdc_vars, args, fc_up, tmp, data, command, remote,
                   global_pandas_df, gntp_pandas_df, tol_pandas_df>>

get_tolerance ==
    /\ arpg_pc = "get_tolerance"
    /\ IF ~host_group_id_bound
       THEN /\ arpg_pc' = "raised"
            /\ UNCHANGED <<stdout, tol_pandas_df>>
       ELSE IF ~global_pandas_df.is_frame
       THEN /\ stdout' = banner(stdout, <<"Host Group id=", "All">>)
            /\ arpg_pc' = "raised"
            /\ UNCHANGED tol_pandas_df
       ELSE /\ tol_pandas_df' = groupby(weekdays(global_pandas_df.rows))
            /\ stdout' = banner(stdout, <<"Host Group id=", "All">>)
            /\ arpg_pc' = "returned"
    /\ UNCHANGED <<cdc_vars, args, fc_up, tmp, data, command, remote,
                   global_pandas_df, gntp_pandas_df, gatp_pandas_df>>

NextArpg ==
    \/ create_vsql_query
    \/ get_fc_data
    \/ process_file
    \/ display_all_data
    \/ display_raw_data
    \/ get_never_trigger_point
    \/ get_always_trigger_point
    \/ get_tolerance

SpecArpg == InitArpg /\ [][NextArpg]_vars

(***************************************************************************)
(* Vocabulary of the properties.                                           *)
(***************************************************************************)
RowSet(df) == {df.rows[i] : i \in DOMAIN df.rows}

KeySet(df) == {key_of(df.rows[i]) : i \in DOMAIN df.rows}

RowBag(df) ==
    [r \in RowSet(df) |-> Cardinality({i \in DOMAIN df.rows : df.rows[i] = r})]

NoDuplicateKeys(df) ==
    \A i, j \in DOMAIN df.rows :
        key_of(df.rows[i]) = key_of(df.rows[j]) => i = j

\* s without its leading and trailing whitespace: from its first symbol
\* that is not whitespace to its last.
Trimmed(s) ==
    LET ink == {k \in DOMAIN s : s[k] # SP}
    IN  IF ink = {} THEN <<>>
        ELSE SubSeq(s, CHOOSE k \in ink : \A j \in ink : k <= j,
                       CHOOSE k \in ink : \A j \in ink : j <= k)

FacilityField(line) == line[ColumnPos("FACILITY_TYPE")]

AllNewLines == flatten(new_files)

Loaded == pc \in {"loaded", "done"}

\* C1: the key projections of added, removed and unchanged are pairwise
\* disjoint and together are the key projections of master and incoming.
C1_Partition ==
    pc = "done" =>
        /\ KeySet(new_clias_df) \cap KeySet(closed_clias_df) = {}
        /\ KeySet(new_clias_df) \cap KeySet(unchanged_clias_df) = {}
        /\ KeySet(closed_clias_df) \cap KeySet(unchanged_clias_df) = {}
        /\ KeySet(new_clias_df) \cup KeySet(closed_clias_df)
              \cup KeySet(unchanged_clias_df)
           = KeySet(df_mas_lab_data) \cup KeySet(df_new_lab_data)

C1_Witness ==
    /\ pc = "done"
    /\ new_clias_df.rows # <<>>
    /\ closed_clias_df.rows # <<>>
    /\ unchanged_clias_df.rows # <<>>

\* C2: the new master holds the rows of unchanged and the rows of added,
\* each as often as there, and nothing else.
C2_NewMasterIsUnchangedPlusAdded ==
    pc = "done" =>
        RowBag(new_master_df) = RowBag(unchanged_clias_df) (+) RowBag(new_clias_df)

C2_Witness ==
    /\ pc = "done"
    /\ new_clias_df.rows # <<>>
    /\ unchanged_clias_df.rows # <<>>
    /\ Len(new_master_df.rows) = 3

\* C3: no key of a removed row is a key of a row of the new master.
C3_RemovedNotInNewMaster ==
    pc = "done" => KeySet(new_master_df) \cap KeySet(closed_clias_df) = {}

C3_Witness ==
    /\ pc = "done"
    /\ closed_clias_df.rows # <<>>
    /\ new_master_df.rows # <<>>

\* C4 as stated: the new master is the added rows followed by the unchanged
\* rows, indexed 0..n-1.
C4_AddedThenUnchanged ==
    pc = "done" =>
        /\ new_master_df.rows = new_clias_df.rows \o unchanged_clias_df.rows
        /\ new_master_df.index = RangeIndex(Len(new_master_df.rows))

\* C4 amended: the new master is the unchanged rows followed by the added
\* rows, indexed 0..n-1 without gap or repetition.
C4_UnchangedThenAdded ==
    pc = "done" =>
        /\ new_master_df.rows = unchanged_clias_df.rows \o new_clias_df.rows
        /\ new_master_df.index = RangeIndex(Len(new_master_df.rows))

C4_Witness ==
    /\ pc = "done"
    /\ new_clias_df.rows # <<>>
    /\ unchanged_clias_df.rows # <<>>
    /\ new_clias_df.rows \o unchanged_clias_df.rows
          # unchanged_clias_df.rows \o new_clias_df.rows

\* C5: reconciling the new master against the same incoming table adds
\* nothing.
C5_RerunAddsNothing ==
    pc = "done" => new_clias(new_master_df, df_new_lab_data).rows = <<>>

C5_Witness ==
    /\ pc = "done"
    /\ new_clias_df.rows # <<>>
    /\ closed_clias_df.rows # <<>>
    /\ new_master_df.rows # df_mas_lab_data.rows

\* C6: with the inputs swapped, added and removed change places and
\* unchanged stays, as sets of rows.
C6_Symmetry ==
    pc = "done" =>
        /\ RowSet(new_clias_df)
              = RowSet(closed_clias(df_new_lab_data, df_mas_lab_data))
        /\ RowSet(closed_clias_df)
              = RowSet(new_clias(df_new_lab_data, df_mas_lab_data))
        /\ RowSet(unchanged_clias_df)
              = RowSet(unchanged_clias(df_new_lab_data, df_mas_lab_data))

C6_Witness ==
    /\ pc = "done"
    /\ new_clias_df.rows # <<>>
    /\ closed_clias_df.rows # <<>>
    /\ unchanged_clias_df.rows # <<>>
    /\ df_mas_lab_data.rows # df_new_lab_data.rows

\* C7: a table without duplicate keys reconciled against itself has no
\* added row, no removed row, and itself as the unchanged table.
C7_SelfReconcile ==
    /\ pc = "done" /\ df_mas_lab_data.rows = df_new_lab_data.rows
          /\ NoDuplicateKeys(df_mas_lab_data)
       => /\ new_clias_df.rows = <<>>
          /\ closed_clias_df.rows = <<>>
          /\ unchanged_clias_df.rows = df_mas_lab_data.rows
    /\ \A A \in {df_mas_lab_data, df_new_lab_data} :
          pc = "loaded" /\ NoDuplicateKeys(A)
          => /\ new_clias(A, A).rows = <<>>
             /\ closed_clias(A, A).rows = <<>>
             /\ unchanged_clias(A, A).rows = A.rows

C7_Witness ==
    /\ pc = "done"
    /\ df_mas_lab_data.rows = df_new_lab_data.rows
    /\ NoDuplicateKeys(df_mas_lab_data)
    /\ Len(df_mas_lab_data.rows) = 2
    /\ unchanged_clias_df.rows = df_mas_lab_data.rows

C9_FilteredBeforeClassification ==
    Loaded =>
        \A df \in {df_mas_lab_data, df_new_lab_data} :
            \A i \in DOMAIN df.rows :
                df.rows[i]["FACILITY_TYPE"] \in facility_type_keep_list

C9_Witness ==
    /\ pc = "loaded"
    /\ \E i \in DOMAIN master_csv :
          FacilityField(master_csv[i]) = <<"Clinic">>
    /\ \E i \in DOMAIN AllNewLines :
          FacilityField(AllNewLines[i]) = <<"Clinic">>
    /\ df_mas_lab_data.rows # <<>>
    /\ df_new_lab_data.rows # <<>>

\* C10: the loaded values are whitespace-stripped strings, and a source row
\* is retained exactly when its FACILITY_TYPE field, stripped, is in the
\* keep-list.
C10_FilterOnStrippedValues ==
    Loaded =>
        /\ \A df \in {df_mas_lab_data, df_new_lab_data} :
              \A i \in DOMAIN df.rows : \A c \in ColumnSet :
                  df.rows[i][c] # NaN /\ Trimmed(df.rows[i][c]) = df.rows[i][c]
        /\ \A i \in DOMAIN master_csv :
              (\E k \in DOMAIN df_mas_lab_data.index :
                  df_mas_lab_data.index[k] = i - 1)
              <=> Trimmed(FacilityField(master_csv[i])) \in facility_type_keep_list
        /\ Len(df_new_lab_data.rows)
              = Cardinality({i \in DOMAIN AllNewLines :
                    Trimmed(FacilityField(AllNewLines[i]))
                        \in facility_type_keep_list})

\* The frames get_files would leave without its keep-list filter.
master_unfiltered == applymap(astype(read_master(master_csv)))

new_unfiltered ==
    applymap(astype(concat([k \in DOMAIN new_files |-> read_csv(new_files[k])])))

NothingClassified ==
    /\ new_clias_df = EmptyFrame
    /\ closed_clias_df = EmptyFrame
    /\ unchanged_clias_df = EmptyFrame
    /\ new_master_df = EmptyFrame
    /\ Output = <<>>

HeaderNames == {master_header[i] : i \in DOMAIN master_header}

\* C11: the unchanged and added tables of the run (filter, then reconcile)
\* are those of reconciling the unfiltered tables with the rows outside the
\* keep-list removed afterwards.
C11_FilterCommutes ==
    pc = "done" =>
        /\ unchanged_clias_df.rows
              = isin_keep(unchanged_clias(master_unfiltered, new_unfiltered)).rows
        /\ new_clias_df.rows
              = isin_keep(new_clias(master_unfiltered, new_unfiltered)).rows

\* C12: when a line of the master file or of a new file has fewer or more
\* fields than there are column names, loading fails: the run never gets
\* past get_files.
C12_RaggedLineFailsLoad ==
    (\/ \E i \in DOMAIN master_csv : Len(master_csv[i]) # Len(master_header)
     \/ \E i \in DOMAIN AllNewLines : Len(AllNewLines[i]) # Len(columns))
    => pc \in {"start", "raised"}

\* C13: when get_files raises, nothing is classified, no file is written,
\* and the run ends with the exception raised out of main().
C13_LoadFailureAborts ==
    /\ (usecols_missing
          \/ \E k \in DOMAIN new_files : too_many_columns(new_files[k]))
       => pc \in {"start", "raised"}
    /\ pc \in {"start", "raised"} => NothingClassified

C13_Witness ==
    /\ pc = "raised"
    /\ ~usecols_missing
    /\ df_mas_lab_data.rows # <<>>
    /\ NothingClassified

\* C14: when a column of self.columns is in no header field of the master
\* file, or in no line of a new file, the run fails before any join: it
\* never gets past get_files and nothing is classified.
C14_MissingKeyColumnFailsBeforeJoin ==
    (\/ ~(ColumnSet \subseteq HeaderNames)
     \/ \E k \in DOMAIN new_files :
           /\ new_files[k] # <<>>
           /\ \E p \in DOMAIN columns :
                 \A i \in DOMAIN new_files[k] : Len(new_files[k][i]) < p)
    => pc \in {"start", "raised"} /\ NothingClassified

C14_Witness ==
    /\ pc = "raised"
    /\ master_header = NarrowHeader
    /\ master_csv # <<>>
    /\ df_mas_lab_data = EmptyFrame

ValidTable(df) ==
    /\ df.index = RangeIndex(Len(df.rows))
    /\ \A i \in DOMAIN df.rows : DOMAIN df.rows[i] = ColumnSet

InKeepList(line) == FacilityField(line) \in facility_type_keep_list

\* C15: a run whose incoming table has no rows ends normally with added
\* empty, unchanged empty, removed holding the rows of the whole master and
\* the new master empty; with an empty input every classification is a
\* table (possibly empty) and the files are written.
C15_EmptyIncoming ==
    /\ pc = "done" /\ df_new_lab_data.rows = <<>> =>
          /\ new_clias_df.rows = <<>>
          /\ unchanged_clias_df.rows = <<>>
          /\ RowBag(closed_clias_df) = RowBag(df_mas_lab_data)
          /\ Len(closed_clias_df.rows) = Len(df_mas_lab_data.rows)
          /\ new_master_df.rows = <<>>
    /\ pc = "done" /\ (df_new_lab_data.rows = <<>> \/ df_mas_lab_data.rows = <<>>) =>
          /\ ValidTable(new_clias_df)
          /\ ValidTable(closed_clias_df)
          /\ ValidTable(unchanged_clias_df)
          /\ ValidTable(new_master_df)
          /\ Len(Output) = 3

C15_Witness ==
    /\ pc = "done"
    /\ AllNewLines # <<>>
    /\ df_new_lab_data.rows = <<>>
    /\ Len(df_mas_lab_data.rows) = 2
    /\ Len(closed_clias_df.rows) = 2

\* C16: a key that occurs in the incoming table and not in the master has
\* all its incoming rows in added and all of them in the new master: two
\* rows with the same key stay two rows.
C16_IncomingDuplicatesKept ==
    pc = "done" =>
        \A k \in KeySet(df_new_lab_data) :
            count(df_mas_lab_data, k) = 0 =>
                /\ count(new_clias_df, k) = count(df_new_lab_data, k)
                /\ count(new_master_df, k) = count(df_new_lab_data, k)

C16_Witness ==
    /\ pc = "done"
    /\ \E k \in KeySet(df_new_lab_data) :
          /\ count(df_mas_lab_data, k) = 0
          /\ count(df_new_lab_data, k) = 2
          /\ count(new_clias_df, k) = 2
          /\ count(new_master_df, k) = 2

\* C17: the incoming table is the concatenation of the new files, first
\* file first, each file's lines in their order, and no line is removed as
\* a duplicate: before the filter it has as many rows as the files have
\* lines, and after it the kept lines in that same order.
C17_ConcatenationInSourceOrder ==
    Loaded =>
        LET lines == AllNewLines
            kept == SelectSeq(lines, InKeepList)
            before == new_unfiltered.rows
        IN  /\ Len(before) = Len(lines)
            /\ \A i \in DOMAIN lines : \A c \in ColumnSet :
                  before[i][c] = Trimmed(lines[i][ColumnPos(c)])
            /\ Len(df_new_lab_data.rows) = Len(kept)
            /\ \A i \in DOMAIN kept : \A c \in ColumnSet :
                  df_new_lab_data.rows[i][c] = Trimmed(kept[i][ColumnPos(c)])

C17_Witness ==
    /\ Loaded
    /\ Len(new_files) = 2
    /\ new_files[1] # <<>>
    /\ new_files[2] # <<>>
    /\ new_files[1][1] = new_files[2][1]
    /\ Len(df_new_lab_data.rows) = 2
    /\ df_new_lab_data.rows[1] = df_new_lab_data.rows[2]

\* C18: once get_files has finished, no step changes the master table
\* df_mas_lab_data or the incoming table df_new_lab_data.
C18_InputsUnchangedByClassification ==
    [][Loaded => /\ df_mas_lab_data' = df_mas_lab_data
                 /\ df_new_lab_data' = df_new_lab_data]_vars

C18_Witness ==
    /\ pc = "done"
    /\ df_mas_lab_data.rows # <<>>
    /\ df_new_lab_data.rows # <<>>
    /\ new_clias_df.rows # <<>>
    /\ closed_clias_df.rows # <<>>
    /\ unchanged_clias_df.rows # <<>>

OutputNames == {Output[i].name : i \in DOMAIN Output}

Written(df) == \E i \in DOMAIN Output : Output[i].data = to_csv(df)

\* C19: when the run has succeeded, four files have been written, one for
\* each of added, removed, unchanged and the new master.
C19_FourOutputFiles ==
    pc = "done" =>
        /\ Len(Output) = 4
        /\ Written(new_clias_df)
        /\ Written(closed_clias_df)
        /\ Written(unchanged_clias_df)
        /\ Written(new_master_df)

\* C19 as the code has it: when the run has succeeded, exactly three files
\* have been written, new_clia_data with the added table, closed_clia_data
\* with the removed table and new_master_clia_data with the new master;
\* there is no file for the unchanged table, and no file before the run
\* has succeeded.
C19_ThreeOutputFiles ==
    /\ pc = "done" =>
          /\ Len(Output) = 3
          /\ OutputNames = {"new_clia_data", "closed_clia_data", "new_master_clia_data"}
          /\ \A i \in DOMAIN Output :
                Output[i].data =
                    to_csv(CASE Output[i].name = "new_clia_data" -> new_clias_df
                             [] Output[i].name = "closed_clia_data" -> closed_clias_df
                             [] OTHER -> new_master_df)
    /\ pc # "done" => Output = <<>>

C19_Witness ==
    /\ pc = "done"
    /\ Len(Output) = 3
    /\ unchanged_clias_df.rows # <<>>
    /\ new_clias_df.rows # <<>>
    /\ closed_clias_df.rows # <<>>
    /\ ~Written(unchanged_clias_df)

OutputFrames == {new_clias_df, closed_clias_df, unchanged_clias_df, new_master_df}

\* The text a loaded table holds for the field at position p of a line.
LoadedValue(line, p) ==
    IF p <= Len(line) THEN Trimmed(line[p]) ELSE astype_str(NaN)

C21_LoadedValueIsFieldText ==
    Loaded =>
        LET mas == SelectSeq(master_csv, InKeepList)
            new == SelectSeq(AllNewLines, InKeepList)
        IN  /\ Len(df_mas_lab_data.rows) = Len(mas)
            /\ \A i \in DOMAIN mas : \A c \in ColumnSet :
                  df_mas_lab_data.rows[i][c] = Trimmed(mas[i][HeaderPos(c)])
            /\ Len(df_new_lab_data.rows) = Len(new)
            /\ \A i \in DOMAIN new : \A c \in ColumnSet :
                  df_new_lab_data.rows[i][c] = Trimmed(new[i][ColumnPos(c)])

\* The _merge tags the rows of d carry.
Tags(d) == {d.rows[i]["_merge"] : i \in DOMAIN d.rows}

DenseIndex(d) == d.index = RangeIndex(Len(d.rows))

\* C22: on the loaded tables df_diff gives, each with the index 0..n-1:
\* for left_only the rows of the keys only the first table has, as often as
\* it has them; for right_only those of the keys only the second has; for
\* both one row per pairing of the keys both have; and for None the rows of
\* left_only and of right_only together and no row of both.
C22_df_diff ==
    pc = "loaded" =>
        LET df1 == df_mas_lab_data
            df2 == df_new_lab_data
            left == df_diff(df1, df2, "left_only")
            right == df_diff(df1, df2, "right_only")
            both == df_diff(df1, df2, "both")
            either == df_diff(df1, df2, None)
            keys == KeySet(df1) \cup KeySet(df2)
        IN  /\ DenseIndex(left) /\ DenseIndex(right)
            /\ DenseIndex(both) /\ DenseIndex(either)
            /\ Tags(left) \subseteq {"left_only"}
            /\ Tags(right) \subseteq {"right_only"}
            /\ Tags(both) \subseteq {"both"}
            /\ Tags(either) \subseteq {"left_only", "right_only"}
            /\ \A k \in keys :
                  /\ count(left, k) = IF count(df2, k) = 0 THEN count(df1, k) ELSE 0
                  /\ count(right, k) = IF count(df1, k) = 0 THEN count(df2, k) ELSE 0
                  /\ count(both, k) = count(df1, k) * count(df2, k)
                  /\ count(either, k) = count(left, k) + count(right, k)
            /\ KeySet(left) \cup KeySet(right) \cup KeySet(both) \subseteq keys
            /\ RowSet(either) = RowSet(left) \cup RowSet(right)
            /\ Len(either.rows) = Len(left.rows) + Len(right.rows)

C22_Witness ==
    /\ pc = "loaded"
    /\ KeySet(df_mas_lab_data) \ KeySet(df_new_lab_data) # {}
    /\ KeySet(df_new_lab_data) \ KeySet(df_mas_lab_data) # {}
    /\ KeySet(df_mas_lab_data) \cap KeySet(df_new_lab_data) # {}
    /\ Len(df_diff(df_mas_lab_data, df_new_lab_data, None).rows) = 2

\* C23: the join does not collapse the rows of a key: a key with nl rows in
\* the master and nr rows in the incoming table has nl * nr unchanged rows
\* (two for a key twice in the master and once incoming), and a key the
\* incoming table lacks has all its nl master rows in removed.
C23_JoinKeepsDuplicates ==
    pc = "done" =>
        \A k \in KeySet(df_mas_lab_data) :
            LET nl == count(df_mas_lab_data, k)
                nr == count(df_new_lab_data, k)
            IN  /\ count(unchanged_clias_df, k) = nl * nr
                /\ nr = 0 => count(closed_clias_df, k) = nl
                /\ nl = 2 /\ nr = 1 =>
                      Cardinality({i \in DOMAIN unchanged_clias_df.rows :
                                     unchanged_clias_df.rows[i] = k}) = 2

C23_Witness ==
    /\ pc = "done"
    /\ \E k \in KeySet(df_mas_lab_data) :
          /\ count(df_mas_lab_data, k) = 2
          /\ count(df_new_lab_data, k) = 1
          /\ count(unchanged_clias_df, k) = 2
    /\ Len(unchanged_clias_df.rows) = 2

\* C24: the keys of the new master are the keys of the incoming table, and
\* when no key is repeated in the master or in the incoming table the new
\* master has as many rows as added and unchanged together, which is as
\* many as the incoming table, and removed and unchanged together have as
\* many rows as the master.
C24_NewMasterFromIncoming ==
    pc = "done" =>
        /\ KeySet(new_master_df) = KeySet(df_new_lab_data)
        /\ NoDuplicateKeys(df_mas_lab_data) /\ NoDuplicateKeys(df_new_lab_data) =>
              /\ Len(new_master_df.rows)
                    = Len(new_clias_df.rows) + Len(unchanged_clias_df.rows)
              /\ Len(new_master_df.rows) = Len(df_new_lab_data.rows)
              /\ Len(closed_clias_df.rows) + Len(unchanged_clias_df.rows)
                    = Len(df_mas_lab_data.rows)

C24_Witness ==
    /\ pc = "done"
    /\ NoDuplicateKeys(df_mas_lab_data)
    /\ NoDuplicateKeys(df_new_lab_data)
    /\ Len(new_clias_df.rows) = 1
    /\ Len(unchanged_clias_df.rows) = 1
    /\ Len(closed_clias_df.rows) = 1
    /\ Len(new_master_df.rows) = 2

\* The three files of a run in the order of their to_csv calls.
FilesInOrder ==
    <<[name |-> "new_clia_data", data |-> to_csv(new_clias_df)],
      [name |-> "closed_clia_data", data |-> to_csv(closed_clias_df)],
      [name |-> "new_master_clia_data", data |-> to_csv(new_master_df)]>>

\* C25: the files are written in the order added, removed, new master, and
\* only once the classifications and the new master are computed: what is
\* written is always a beginning of that list, so the new-master file is
\* there only with the two others before it; when a write fails the files
\* written before it stay, and the run ends raised.
C25_WriteOrder ==
    /\ Len(Output) <= 3
    /\ Output = SubSeq(FilesInOrder, 1, Len(Output))
    /\ Output # <<>> =>
          /\ new_clias_df = new_clias(df_mas_lab_data, df_new_lab_data)
          /\ closed_clias_df = closed_clias(df_mas_lab_data, df_new_lab_data)
          /\ unchanged_clias_df = unchanged_clias(df_mas_lab_data, df_new_lab_data)
          /\ new_master_df = new_master(unchanged_clias_df, new_clias_df)
    /\ pc = "raised" => Len(Output) = can_write /\ can_write < 3
    /\ pc = "done" => Len(Output) = 3
    /\ pc \in {"start", "loaded"} => Output = <<>>

C25_Witness ==
    /\ pc = "raised"
    /\ can_write = 2
    /\ Len(Output) = 2
    /\ Output[1].name = "new_clia_data"
    /\ Output[2].name = "closed_clia_data"
    /\ new_master_df.rows # <<>>
    /\ closed_clias_df.rows # <<>>

SkipsRetrieval == args.cache \/ args.csv # "None" \/ args.dry_run

\* get_fc_data has returned or raised
Fetched == command # <<>> /\ arpg_pc # "get_fc_data"

HostGroupBanners ==
    Cardinality({i \in DOMAIN stdout : stdout[i][1] = "Host Group id="})

\* C26: with --cache, --csv or --dry_run nothing is done on the Flow
\* Collector, and get_fc_data says why in that precedence: cache, then csv,
\* then dry run; with --dry_run and neither of the others the run exits in
\* process_file with no frame read or computed and never reaches a display
\* or trigger-point step.
C26_NoRemoteWorkWhenSkipped ==
    /\ SkipsRetrieval => remote = <<>>
    /\ SkipsRetrieval /\ Fetched =>
          stdout[1] = IF args.cache
                      THEN <<"Skip retrieving latest data, process cached data off-box">>
                      ELSE IF args.csv # "None"
                      THEN <<"Skip retrieving latest data, processing file", args.csv>>
                      ELSE <<"Dry Run Begin">>
    /\ args.dry_run /\ ~args.cache /\ args.csv = "None" =>
          /\ arpg_pc \in {"create_vsql_query", "get_fc_data", "process_file", "exited"}
          /\ global_pandas_df = Str
          /\ gntp_pandas_df = Str
          /\ gatp_pandas_df = Str
          /\ tol_pandas_df = Str
          /\ HostGroupBanners = 0

C26_Witness ==
    /\ arpg_pc = "exited"
    /\ args.dry_run /\ ~args.cache /\ args.csv = "None"
    /\ fc_up
    /\ "/tmp/arpg.bz2" \in tmp
    /\ data # <<>>
    /\ remote = <<>>
    /\ stdout = <<<<"Dry Run Begin">>, <<"Dry run end">>>>

\* C27: whatever --host_group is, once the data is loaded the run does not
\* raise, and when it has returned each of get_never_trigger_point,
\* get_always_trigger_point and get_tolerance has printed its Host Group
\* banner.
C27_AnyHostGroupRuns ==
    /\ global_pandas_df.is_frame => arpg_pc # "raised"
    /\ arpg_pc = "returned" => HostGroupBanners = 3

====
